---- MODULE Spec2Model ----
(***************************************************************************)
(* A model of the bigint-poly crate: the Polynomial value type             *)
(* (src/src/polynomial.rs), its arithmetic, long division, cyclotomic      *)
(* reduction and textual rendering, and the scalar reduction utilities.    *)
(*                                                                         *)
(* A polynomial is the sequence of its coefficients, highest degree        *)
(* first, as the field `coefficients: Vec<BigInt>`.  TLA+ sequences are    *)
(* 1-based: the code's coefficients[i] is coefficients[i + 1] here.        *)
(* BigInt is arbitrary precision, so coefficients are plain integers.      *)
(***************************************************************************)
EXTENDS Integers, Sequences, FiniteSets, TLC

VARIABLES
    pc,         \* which operation has been applied ("init": none yet)
    p, q, r,    \* the polynomials the operations are applied to
    x, m,       \* the scalar and the modulus of the utilities
    status,     \* "none" | "Ok" | "DivisionByZero" | "InvalidPolynomial" | "Panic"
    result,     \* the polynomial an operation returned
    result2,    \* the second polynomial of a two-sided computation
    quotient,   \* div's quotient
    remainder,  \* div's remainder
    text,       \* to_string() of p
    text2,      \* to_string() of p.neg()
    val,        \* the integer a scalar utility returned
    build       \* the build div ran in: "debug" (overflow checks) | "release" | "none"

vars == <<pc, p, q, r, x, m, status, result, result2, quotient, remainder, text, text2, val,
          build>>

inputs == <<p, q, r, x, m>>

-----------------------------------------------------------------------------
(* Bounds of the model.                                                    *)

\* Operands of add, neg, sub and mul.
MaxLen == 2
MaxCoef == 2

\* Dividend and divisor of div and reduce_by_cyclotomic.
MaxDividendLen == 2
MaxDividendCoef == 2
MaxDivisorLen == 2
MaxDivisorCoef == 2

\* The three operands of the distributivity law: p and q, and the shorter r.
MaxDistLen == 2
MaxDistCoef == 1
MaxDistLenR == 1
MaxDistCoefR == 1

\* The polynomial that is rendered.
MaxShownLen == 3
MaxShownCoef == 2

\* The polynomial that is converted, trimmed or evaluated, and the point it
\* is evaluated at.
MaxOneLen == 3
MaxOneCoef == 2
MaxPoint == 2

\* The scalar, the modulus and the vector of the reduction utilities.
MaxScalar == 9
MaxModulus == 6
MaxVecLen == 2
MaxVecCoef == 2

\* usize is 64 bits wide (32 on some targets); TLC's integers are 32 bits, so
\* the model's usize is narrower.  Every length of the model is far below
\* 2^UsizeBits, so the only wrap-around is that of 0 - 1.
UsizeBits == 16

UsizeModulus == 2 ^ UsizeBits

\* Every coefficient sequence of at most maxLen coefficients of magnitude at
\* most maxCoef, the empty sequence included.
Polys(maxLen, maxCoef) ==
    UNION {[1 .. n -> (0 - maxCoef) .. maxCoef] : n \in 0 .. maxLen}

-----------------------------------------------------------------------------
(* Integer helpers.                                                        *)

Max(a, b) == IF a >= b THEN a ELSE b

Min(a, b) == IF a <= b THEN a ELSE b

Abs(a) == IF a < 0 THEN 0 - a ELSE a

\* BigInt's `/`: the quotient truncated toward zero.
TruncDiv(a, b) ==
    IF (a >= 0) = (b > 0) THEN Abs(a) \div Abs(b) ELSE 0 - (Abs(a) \div Abs(b))

\* BigInt's `%`: the remainder of the truncating division (the dividend's sign).
TruncRem(a, b) == a - b * TruncDiv(a, b)

\* vec![BigInt::zero(); n]
Zeros(n) == [k \in 1 .. n |-> 0]

\* The panic "attempt to subtract/add with overflow", in place of a usize.
Overflow == 0 - 1

\* usize subtraction: with overflow checks (debug builds) an underflow
\* panics, without them (release builds) it wraps.
UsizeSub(a, b, overflow_checks) ==
    IF a = Overflow THEN Overflow
    ELSE IF a >= b THEN a - b
    ELSE IF overflow_checks THEN Overflow
    ELSE a - b + UsizeModulus

\* usize addition, likewise.
UsizeAdd(a, b, overflow_checks) ==
    IF a = Overflow THEN Overflow
    ELSE IF a + b < UsizeModulus THEN a + b
    ELSE IF overflow_checks THEN Overflow
    ELSE a + b - UsizeModulus

\* usize::saturating_sub
SaturatingSub(a, b) == IF a >= b THEN a - b ELSE 0

-----------------------------------------------------------------------------
(* The value type.                                                         *)

\* Polynomial::zero(degree)
zero(deg) == Zeros(deg + 1)

\* Polynomial::degree
degree(a) == IF Len(a) = 0 THEN 0 ELSE Len(a) - 1

\* Polynomial::is_zero
is_zero(a) == \A k \in 1 .. Len(a) : a[k] = 0

\* A trim with `if` in place of `while`: at most one leading zero is removed.
trim_one_leading_zero(a) ==
    IF Len(a) > 1 /\ a[1] = 0 THEN Tail(a) ELSE a

\* A trim that goes on while any coefficient is left, as the stripping of
\* div's remainder does.
RECURSIVE trim_to_empty(_)
trim_to_empty(a) ==
    IF Len(a) > 0 /\ a[1] = 0 THEN trim_to_empty(Tail(a)) ELSE a

\* Polynomial::trim_leading_zeros
RECURSIVE trim_leading_zeros(_)
trim_leading_zeros(a) ==
    IF Len(a) > 1 /\ a[1] = 0 THEN trim_leading_zeros(Tail(a)) ELSE a

\* Polynomial::neg
neg(a) == [k \in 1 .. Len(a) |-> 0 - a[k]]

\* Vec::reverse, from the i-th swap on: the i-th element from the front is
\* swapped with the i-th from the back, up to the middle.
RECURSIVE ReverseFrom(_, _)
ReverseFrom(v, i) ==
    IF i > Len(v) \div 2 THEN v
    ELSE ReverseFrom([v EXCEPT ![i] = v[Len(v) + 1 - i],
                               ![Len(v) + 1 - i] = v[i]], i + 1)

\* A constructor that stores its argument as given, without reversing it.
from_ascending_as_given(ascending_coefficients) == ascending_coefficients

\* Polynomial::from_ascending_coefficients
from_ascending_coefficients(ascending_coefficients) ==
    ReverseFrom(ascending_coefficients, 1)

\* Polynomial::to_ascending_coefficients
to_ascending_coefficients(a) == ReverseFrom(a, 1)

-----------------------------------------------------------------------------
(* add, sub                                                                *)

\* The first loop of add: result[max_length - a.len() + i] = a[i].
AddCopy(res, a, max_length) ==
    [k \in 1 .. max_length |->
        IF k > max_length - Len(a) THEN a[k - (max_length - Len(a))] ELSE res[k]]

\* A second loop that adds at result[i]: the operands aligned at the
\* high-degree end.
AddIntoLeftAligned(res, b, max_length) ==
    [k \in 1 .. max_length |-> IF k <= Len(b) THEN res[k] + b[k] ELSE res[k]]

\* The second loop of add: result[max_length - b.len() + i] += b[i].
AddInto(res, b, max_length) ==
    [k \in 1 .. max_length |->
        IF k > max_length - Len(b) THEN res[k] + b[k - (max_length - Len(b))]
        ELSE res[k]]

\* Polynomial::add
add(a, b) ==
    LET max_length == Max(Len(a), Len(b))
    IN  AddInto(AddCopy(Zeros(max_length), a, max_length), b, max_length)

\* Polynomial::sub
sub(a, b) == add(a, neg(b))

-----------------------------------------------------------------------------
(* mul                                                                     *)

\* An inner statement that assigns instead of accumulating.
MulAssign(product, a, b, i, j) ==
    [product EXCEPT ![i + j - 1] = a[i] * b[j]]

\* product[i + j] += a[i] * b[j]   (i, j are 1-based here)
MulAcc(product, a, b, i, j) ==
    [product EXCEPT ![i + j - 1] = @ + a[i] * b[j]]

\* The two nested loops of mul, from (i, j) on.
RECURSIVE MulLoop(_, _, _, _, _)
MulLoop(product, a, b, i, j) ==
    IF i > Len(a) THEN product
    ELSE IF j > Len(b) THEN MulLoop(product, a, b, i + 1, 1)
    ELSE MulLoop(MulAcc(product, a, b, i, j), a, b, i, j + 1)

\* Polynomial::mul
mul(a, b) ==
    IF is_zero(a) \/ is_zero(b) THEN zero(0)
    ELSE LET product_len == Len(a) + Len(b) - 1
         IN  MulLoop(Zeros(product_len), a, b, 1, 1)

-----------------------------------------------------------------------------
(* div                                                                     *)

\* The two guards of div in the other order: the leading coefficient is
\* looked at before is_zero.
DivCheckLeadingFirst(divisor) ==
    IF Len(divisor) = 0 \/ divisor[1] = 0 THEN "InvalidPolynomial"
    ELSE IF is_zero(divisor) THEN "DivisionByZero"
    ELSE "Ok"

\* The two guards of div, in the code's order.
DivCheck(divisor) ==
    IF is_zero(divisor) THEN "DivisionByZero"
    ELSE IF Len(divisor) = 0 \/ divisor[1] = 0 THEN "InvalidPolynomial"
    ELSE "Ok"

\* An update that adds the multiple of the divisor instead of subtracting it.
DivAddAt(rem, divisor, coeff, i, j) ==
    [rem EXCEPT ![i + j - 1] = @ + divisor[j] * coeff]

\* remainder[i + j] = remainder[i + j] - divisor[j] * coeff   (1-based i, j)
DivSubAt(rem, divisor, coeff, i, j) ==
    [rem EXCEPT ![i + j - 1] = @ - divisor[j] * coeff]

\* The inner loop of div over j, from j on; the code's 0-based guard
\* i + j < remainder.len() is i + j - 1 <= Len(rem) here.
RECURSIVE DivInner(_, _, _, _, _)
DivInner(rem, divisor, coeff, i, j) ==
    IF j > Len(divisor) THEN rem
    ELSE IF i + j - 1 <= Len(rem)
         THEN DivInner(DivSubAt(rem, divisor, coeff, i, j), divisor, coeff, i, j + 1)
         ELSE DivInner(rem, divisor, coeff, i, j + 1)

\* The outer loop of div over i, from i on: <<quotient, remainder>>.  The
\* code's 0-based `if i >= remainder.len() { break }` is i > Len(rem) here.
RECURSIVE DivLoop(_, _, _, _)
DivLoop(quo, rem, divisor, i) ==
    IF i > Len(quo) \/ i > Len(rem) THEN <<quo, rem>>
    ELSE LET coeff == TruncDiv(rem[i], divisor[1])
         IN  DivLoop([quo EXCEPT ![i] = coeff],
                     DivInner(rem, divisor, coeff, i, 1), divisor, i + 1)

\* while !remainder.is_empty() && remainder[0].is_zero() { remainder.remove(0) }
RECURSIVE StripLeadingZeros(_)
StripLeadingZeros(rem) ==
    IF Len(rem) > 0 /\ rem[1] = 0 THEN StripLeadingZeros(Tail(rem)) ELSE rem

\* What div returns: Ok((quotient, remainder)), Err(DivisionByZero),
\* Err(InvalidPolynomial), or no value at all when an overflow check panics.
DivOk(quo, rem) == [status |-> "Ok", quotient |-> quo, remainder |-> rem]

DivFail(why) == [status |-> why, quotient |-> <<>>, remainder |-> <<>>]

\* Polynomial::div.  overflow_checks: whether the build panics on integer
\* overflow (debug) or wraps (release).
div(a, divisor, overflow_checks) ==
    IF DivCheck(divisor) # "Ok" THEN DivFail(DivCheck(divisor))
    ELSE IF degree(a) < degree(divisor) THEN DivOk(zero(0), a)
    ELSE LET quotient_len ==
                 UsizeAdd(UsizeSub(Len(a), Len(divisor), overflow_checks), 1,
                          overflow_checks)
         IN  IF quotient_len = Overflow THEN DivFail("Panic")
             ELSE LET done == DivLoop(Zeros(quotient_len), a, divisor, 1)
                  IN  DivOk(done[1], StripLeadingZeros(done[2]))

-----------------------------------------------------------------------------
(* reduce_by_cyclotomic                                                    *)

\* out[start_idx..end_idx].clone_from_slice(&remainder[..end_idx - start_idx])
CopySlice(out, start_idx, end_idx, rem) ==
    [k \in 1 .. Len(out) |->
        IF start_idx < k /\ k <= end_idx THEN rem[k - start_idx] ELSE out[k]]

\* What reduce_by_cyclotomic returns: Ok(polynomial), the error of div, or no
\* value when an overflow check panics.
ReduceOk(out) == [status |-> "Ok", out |-> out]

ReduceFail(why) == [status |-> why, out |-> <<>>]

\* A reduction that computes the ring dimension n = cyclo.len() - 1 before
\* it divides.
reduce_dimension_first(a, cyclo, overflow_checks) ==
    LET n == UsizeSub(Len(cyclo), 1, overflow_checks)
        d == div(a, cyclo, overflow_checks)
    IN  IF n = Overflow THEN ReduceFail("Panic")
        ELSE IF d.status # "Ok" THEN ReduceFail(d.status)
        ELSE IF Len(d.remainder) = 0 THEN ReduceOk(Zeros(n))
        ELSE LET start_idx == SaturatingSub(n, Len(d.remainder))
                 end_idx == Min(start_idx + Len(d.remainder), n)
             IN  ReduceOk(CopySlice(Zeros(n), start_idx, end_idx, d.remainder))

\* Polynomial::reduce_by_cyclotomic
reduce_by_cyclotomic(a, cyclo, overflow_checks) ==
    LET d == div(a, cyclo, overflow_checks)
    IN  IF d.status # "Ok" THEN ReduceFail(d.status)
        ELSE LET n == UsizeSub(Len(cyclo), 1, overflow_checks)
             IN  IF n = Overflow THEN ReduceFail("Panic")
                 ELSE IF Len(d.remainder) = 0 THEN ReduceOk(Zeros(n))
                 ELSE LET start_idx == SaturatingSub(n, Len(d.remainder))
                          end_idx == Min(start_idx + Len(d.remainder), n)
                      IN  ReduceOk(CopySlice(Zeros(n), start_idx, end_idx,
                                             d.remainder))

-----------------------------------------------------------------------------
(* evaluate                                                                *)

\* A step that multiplies the coefficient, not the accumulated value, by x.
HornerStepOnCoeff(acc, point, coeff) == acc + point * coeff

\* result = result * x + coeff
HornerStep(acc, point, coeff) == acc * point + coeff

\* The loop of evaluate over coefficients[1..], from the 1-based index i on.
RECURSIVE HornerLoop(_, _, _, _)
HornerLoop(a, point, i, acc) ==
    IF i > Len(a) THEN acc
    ELSE HornerLoop(a, point, i + 1, HornerStep(acc, point, a[i]))

\* Polynomial::evaluate
evaluate(a, point) ==
    IF Len(a) = 0 THEN 0 ELSE HornerLoop(a, point, 2, a[1])

-----------------------------------------------------------------------------
(* Display                                                                 *)

\* What one iteration of fmt's loop writes for a non-zero coefficient of
\* degree deg: the separator unless the term is the first, the magnitude
\* unless it is 1 at a positive degree, then "x" and "^deg".
FmtTerm(coeff, deg, first) ==
    LET abs_coeff == IF coeff < 0 THEN 0 - coeff ELSE coeff
    IN  (IF ~first THEN (IF coeff > 0 THEN " + " ELSE " - ") ELSE "")
        \o (IF deg = 0 \/ abs_coeff # 1 THEN ToString(abs_coeff) ELSE "")
        \o (IF deg > 0
            THEN "x" \o (IF deg > 1 THEN "^" \o ToString(deg) ELSE "")
            ELSE "")

\* fmt's loop over the coefficients from index i on, and the trailing
\* `if first { write "0" }`.
RECURSIVE FmtLoop(_, _, _, _)
FmtLoop(a, i, first, written) ==
    IF i > Len(a) THEN (IF first THEN written \o "0" ELSE written)
    ELSE IF a[i] = 0 THEN FmtLoop(a, i + 1, first, written)
    ELSE FmtLoop(a, i + 1, FALSE, written \o FmtTerm(a[i], Len(a) - i, first))

\* <Polynomial as fmt::Display>::fmt, as the string to_string() returns.
fmt(a) == IF Len(a) = 0 THEN "0" ELSE FmtLoop(a, 1, TRUE, "")

-----------------------------------------------------------------------------
(* The reduction utilities (module utils).                                 *)

\* A reduce_scalar that is the native remainder alone.
reduce_scalar_truncating(a, modulus) == TruncRem(a, modulus)

\* reduce_scalar: the non-negative representative, computed from the native
\* (truncating) remainder.
reduce_scalar(a, modulus) ==
    LET rr == TruncRem(a, modulus)
    IN  IF rr < 0 THEN rr + modulus ELSE rr

\* A centering that also moves r = half_modulus down.
reduce_and_center_from_half(a, modulus, half_modulus) ==
    LET rr == reduce_scalar(a, modulus)
    IN  IF rr >= half_modulus THEN rr - modulus ELSE rr

\* reduce_and_center: centering with a precomputed half-modulus.
reduce_and_center(a, modulus, half_modulus) ==
    LET rr == reduce_scalar(a, modulus)
    IN  IF rr > half_modulus THEN rr - modulus ELSE rr

\* reduce_and_center_scalar
reduce_and_center_scalar(a, modulus) ==
    reduce_and_center(a, modulus, TruncDiv(modulus, 2))

\* reduce_coefficients
reduce_coefficients(vec, modulus) ==
    [k \in 1 .. Len(vec) |-> reduce_scalar(vec[k], modulus)]

\* reduce_and_center_coefficients
reduce_and_center_coefficients(vec, modulus) ==
    [k \in 1 .. Len(vec) |-> reduce_and_center_scalar(vec[k], modulus)]

\* Polynomial::reduce_and_center
poly_reduce_and_center(a, modulus) ==
    LET half_modulus == TruncDiv(modulus, 2)
    IN  [k \in 1 .. Len(a) |-> reduce_and_center(a[k], modulus, half_modulus)]

-----------------------------------------------------------------------------
(* The arithmetic specification: two operands, one operation applied.      *)

Init ==
    /\ pc = "init"
    /\ p \in Polys(MaxLen, MaxCoef)
    /\ q \in Polys(MaxLen, MaxCoef)
    /\ r = <<>>
    /\ x = 0
    /\ m = 1
    /\ status = "none"
    /\ result = <<>>
    /\ result2 = <<>>
    /\ quotient = <<>>
    /\ remainder = <<>>
    /\ text = ""
    /\ text2 = ""
    /\ val = 0
    /\ build = "none"

\* result = p.add(&q)
Add ==
    /\ pc = "init"
    /\ pc' = "add"
    /\ status' = "Ok"
    /\ result' = add(p, q)
    /\ UNCHANGED <<inputs, result2, quotient, remainder, text, text2, val, build>>

\* result = p.sub(&q)
Sub ==
    /\ pc = "init"
    /\ pc' = "sub"
    /\ status' = "Ok"
    /\ result' = sub(p, q)
    /\ UNCHANGED <<inputs, result2, quotient, remainder, text, text2, val, build>>

\* result = p.mul(&q)
Mul ==
    /\ pc = "init"
    /\ pc' = "mul"
    /\ status' = "Ok"
    /\ result' = mul(p, q)
    /\ UNCHANGED <<inputs, result2, quotient, remainder, text, text2, val, build>>

Next == Add \/ Sub \/ Mul

Spec == Init /\ [][Next]_vars

-----------------------------------------------------------------------------
(* The division specification: a dividend p and a divisor q.               *)

InitDiv ==
    /\ pc = "init"
    /\ p \in Polys(MaxDividendLen, MaxDividendCoef)
    /\ q \in Polys(MaxDivisorLen, MaxDivisorCoef)
    /\ r = <<>>
    /\ x = 0
    /\ m = 1
    /\ status = "none"
    /\ result = <<>>
    /\ result2 = <<>>
    /\ quotient = <<>>
    /\ remainder = <<>>
    /\ text = ""
    /\ text2 = ""
    /\ val = 0
    /\ build = "none"

\* (quotient, remainder) = p.div(&q), in a build with or without overflow
\* checks.
Div ==
    /\ pc = "init"
    /\ \E overflow_checks \in BOOLEAN :
          LET d == div(p, q, overflow_checks)
          IN  /\ build' = (IF overflow_checks THEN "debug" ELSE "release")
              /\ status' = d.status
              /\ quotient' = d.quotient
              /\ remainder' = d.remainder
    /\ pc' = "div"
    /\ UNCHANGED <<inputs, result, result2, text, text2, val>>

\* result = p.reduce_by_cyclotomic(&q), in a build with or without overflow
\* checks.
ReduceByCyclotomic ==
    /\ pc = "init"
    /\ \E overflow_checks \in BOOLEAN :
          LET d == reduce_by_cyclotomic(p, q, overflow_checks)
          IN  /\ build' = (IF overflow_checks THEN "debug" ELSE "release")
              /\ status' = d.status
              /\ result' = d.out
    /\ pc' = "reduce_by_cyclotomic"
    /\ UNCHANGED <<inputs, result2, quotient, remainder, text, text2, val>>

NextDiv == Div \/ ReduceByCyclotomic

SpecDiv == InitDiv /\ [][NextDiv]_vars

-----------------------------------------------------------------------------
(* The distributivity specification: three operands.                       *)

InitDist ==
    /\ pc = "init"
    /\ p \in Polys(MaxDistLen, MaxDistCoef)
    /\ q \in Polys(MaxDistLen, MaxDistCoef)
    /\ r \in Polys(MaxDistLenR, MaxDistCoefR)
    /\ x = 0
    /\ m = 1
    /\ status = "none"
    /\ result = <<>>
    /\ result2 = <<>>
    /\ quotient = <<>>
    /\ remainder = <<>>
    /\ text = ""
    /\ text2 = ""
    /\ val = 0
    /\ build = "none"

\* result  = p.mul(&q.add(&r)).trim_leading_zeros()
\* result2 = p.mul(&q).add(&p.mul(&r)).trim_leading_zeros()
Distribute ==
    /\ pc = "init"
    /\ pc' = "distribute"
    /\ status' = "Ok"
    /\ result' = trim_leading_zeros(mul(p, add(q, r)))
    /\ result2' = trim_leading_zeros(add(mul(p, q), mul(p, r)))
    /\ UNCHANGED <<inputs, quotient, remainder, text, text2, val, build>>

NextDist == Distribute

SpecDist == InitDist /\ [][NextDist]_vars

-----------------------------------------------------------------------------
(* The rendering specification: one polynomial, rendered, then its         *)
(* negation rendered.                                                      *)

InitShown ==
    /\ pc = "init"
    /\ p \in Polys(MaxShownLen, MaxShownCoef)
    /\ q = <<>>
    /\ r = <<>>
    /\ x = 0
    /\ m = 1
    /\ status = "none"
    /\ result = <<>>
    /\ result2 = <<>>
    /\ quotient = <<>>
    /\ remainder = <<>>
    /\ text = ""
    /\ text2 = ""
    /\ val = 0
    /\ build = "none"

\* text = p.to_string()
ToStr ==
    /\ pc = "init"
    /\ pc' = "shown"
    /\ text' = fmt(p)
    /\ UNCHANGED <<inputs, status, result, result2, quotient, remainder, text2, val, build>>

\* text2 = p.neg().to_string()
NegToStr ==
    /\ pc = "shown"
    /\ pc' = "shown_neg"
    /\ text2' = fmt(neg(p))
    /\ UNCHANGED <<inputs, status, result, result2, quotient, remainder, text, val, build>>

NextShown == ToStr \/ NegToStr

SpecShown == InitShown /\ [][NextShown]_vars

-----------------------------------------------------------------------------
(* The utilities' specification: a scalar x, a modulus m and a vector p.   *)

InitUtil ==
    /\ pc = "init"
    /\ p \in Polys(MaxVecLen, MaxVecCoef)
    /\ q = <<>>
    /\ r = <<>>
    /\ x \in (0 - MaxScalar) .. MaxScalar
    /\ m \in 1 .. MaxModulus
    /\ status = "none"
    /\ result = <<>>
    /\ result2 = <<>>
    /\ quotient = <<>>
    /\ remainder = <<>>
    /\ text = ""
    /\ text2 = ""
    /\ val = 0
    /\ build = "none"

\* val = reduce_scalar(&x, &m)
ReduceScalar ==
    /\ pc = "init"
    /\ pc' = "reduce_scalar"
    /\ val' = reduce_scalar(x, m)
    /\ UNCHANGED <<inputs, status, result, result2, quotient, remainder, text, text2, build>>

\* val = reduce_and_center_scalar(&x, &m)
ReduceAndCenterScalar ==
    /\ pc = "init"
    /\ pc' = "reduce_and_center_scalar"
    /\ val' = reduce_and_center_scalar(x, m)
    /\ UNCHANGED <<inputs, status, result, result2, quotient, remainder, text, text2, build>>

\* result = reduce_coefficients(&p, &m)
ReduceCoefficients ==
    /\ pc = "init"
    /\ pc' = "reduce_coefficients"
    /\ result' = reduce_coefficients(p, m)
    /\ UNCHANGED <<inputs, status, result2, quotient, remainder, text, text2, val, build>>

\* result = p.reduce_and_center(&m)
PolyReduceAndCenter ==
    /\ pc = "init"
    /\ pc' = "poly_reduce_and_center"
    /\ result' = poly_reduce_and_center(p, m)
    /\ UNCHANGED <<inputs, status, result2, quotient, remainder, text, text2, val, build>>

NextUtil ==
    ReduceScalar \/ ReduceAndCenterScalar \/ ReduceCoefficients \/ PolyReduceAndCenter

SpecUtil == InitUtil /\ [][NextUtil]_vars

-----------------------------------------------------------------------------
(* The one-operand specification: a polynomial p (also read as a plain     *)
(* integer sequence) and a point x.                                        *)

InitOne ==
    /\ pc = "init"
    /\ p \in Polys(MaxOneLen, MaxOneCoef)
    /\ q = <<>>
    /\ r = <<>>
    /\ x \in (0 - MaxPoint) .. MaxPoint
    /\ m = 1
    /\ status = "none"
    /\ result = <<>>
    /\ result2 = <<>>
    /\ quotient = <<>>
    /\ remainder = <<>>
    /\ text = ""
    /\ text2 = ""
    /\ val = 0
    /\ build = "none"

\* result  = Polynomial::from_ascending_coefficients(p).coefficients
\* result2 = that polynomial's to_ascending_coefficients()
FromAscending ==
    /\ pc = "init"
    /\ pc' = "from_ascending"
    /\ result' = from_ascending_coefficients(p)
    /\ result2' = to_ascending_coefficients(from_ascending_coefficients(p))
    /\ UNCHANGED <<inputs, status, quotient, remainder, text, text2, val, build>>

\* result  = p.to_ascending_coefficients()
\* result2 = Polynomial::from_ascending_coefficients(result).coefficients
ToAscending ==
    /\ pc = "init"
    /\ pc' = "to_ascending"
    /\ result' = to_ascending_coefficients(p)
    /\ result2' = from_ascending_coefficients(to_ascending_coefficients(p))
    /\ UNCHANGED <<inputs, status, quotient, remainder, text, text2, val, build>>

\* result  = p.trim_leading_zeros()
\* result2 = result.trim_leading_zeros()
Trim ==
    /\ pc = "init"
    /\ pc' = "trim"
    /\ result' = trim_leading_zeros(p)
    /\ result2' = trim_leading_zeros(trim_leading_zeros(p))
    /\ UNCHANGED <<inputs, status, quotient, remainder, text, text2, val, build>>

\* val = p.evaluate(&x)
Evaluate ==
    /\ pc = "init"
    /\ pc' = "evaluate"
    /\ val' = evaluate(p, x)
    /\ UNCHANGED <<inputs, status, result, result2, quotient, remainder, text, text2,
                   build>>

NextOne == FromAscending \/ ToAscending \/ Trim \/ Evaluate

SpecOne == InitOne /\ [][NextOne]_vars

-----------------------------------------------------------------------------
(* Properties.                                                             *)

\* The coefficient of degree d of a: the (d + 1)-th from the end, zero beyond
\* the stored length.
CoefAt(a, d) == IF d < Len(a) THEN a[Len(a) - d] ELSE 0

\* a padded with leading zeros to n coefficients.
PadTo(a, n) == Zeros(n - Len(a)) \o a

\* The sum of a[i] * b[j] over the 0-based i + j = k, from the 1-based i on.
RECURSIVE ConvSum(_, _, _, _)
ConvSum(a, b, k, i) ==
    IF i > Len(a) THEN 0
    ELSE (IF k + 2 - i \in 1 .. Len(b) THEN a[i] * b[k + 2 - i] ELSE 0)
         + ConvSum(a, b, k, i + 1)

\* C1: whenever p.div(q) returns Ok((quotient, remainder)), which it does
\* only for a divisor q that is not structurally zero and has a non-zero
\* leading coefficient, q.mul(quotient).add(remainder) and p have the same
\* coefficients once both are padded with leading zeros to a common length.
DivisionRemainderIdentity ==
    (pc = "div" /\ status = "Ok") =>
        /\ ~is_zero(q)
        /\ q[1] # 0
        /\ LET back == add(mul(q, quotient), remainder)
               common == Max(Len(back), Len(p))
           IN  PadTo(back, common) = PadTo(p, common)

\* C1, its case: a divisor that is not monic, a division that does not
\* short-circuit, a quotient that is not zero and a remainder that is not
\* empty.
DivisionRemainderIdentityWitness ==
    /\ pc = "div"
    /\ status = "Ok"
    /\ Abs(q[1]) > 1
    /\ degree(p) >= degree(q)
    /\ ~is_zero(quotient)
    /\ remainder # <<>>

\* C2: whenever p.reduce_by_cyclotomic(q) returns Ok(result), result has
\* exactly len(q) - 1 coefficients and is the remainder of p.div(q)
\* right-aligned: every degree's coefficient of the remainder is that degree's
\* coefficient of the result, and every higher position is zero.
ReduceIsRightAlignedRemainder ==
    (pc = "reduce_by_cyclotomic" /\ status = "Ok") =>
        LET rem == div(p, q, FALSE).remainder
        IN  /\ Len(result) = Len(q) - 1
            /\ \A d \in 0 .. Max(Len(result), Len(rem)) :
                   CoefAt(result, d) = CoefAt(rem, d)

\* C3: div fails with InvalidPolynomial when the divisor is the empty
\* sequence, and when the divisor is not structurally zero but its leading
\* coefficient is zero.
DivInvalidPolynomial ==
    pc = "div" =>
        /\ Len(q) = 0 => status = "InvalidPolynomial"
        /\ (~is_zero(q) /\ q[1] = 0) => status = "InvalidPolynomial"

\* C4: div fails with DivisionByZero for every dividend whenever every stored
\* coefficient of the divisor is zero, at any stored length and whatever the
\* leading coefficient check would say, and never for a divisor with a
\* non-zero coefficient.
DivisionByZeroIffStructurallyZero ==
    pc = "div" => (is_zero(q) <=> status = "DivisionByZero")

\* C4, its case: a dividend divided by a zero divisor of two coefficients,
\* whose leading coefficient is zero as well.
DivisionByZeroWitness ==
    /\ pc = "div"
    /\ Len(q) = 2
    /\ is_zero(q)
    /\ ~is_zero(p)
    /\ status = "DivisionByZero"

\* C5, as stated: for a modulus m > 1, reduce_and_center_scalar(x, m) lies in
\* the half-open interval (-floor(m/2), m - floor(m/2)] and is congruent to x
\* modulo m.
CenteringBoundHalfOpen ==
    (pc = "reduce_and_center_scalar" /\ m > 1) =>
        /\ 0 - (m \div 2) < val
        /\ val <= m - (m \div 2)
        /\ (val - x) % m = 0

\* C5, amended: for a modulus m > 1, reduce_and_center_scalar(x, m) lies in
\* the closed interval [-floor(m/2), m - floor(m/2)] and is congruent to x
\* modulo m.
CenteringBoundClosed ==
    (pc = "reduce_and_center_scalar" /\ m > 1) =>
        /\ 0 - (m \div 2) <= val
        /\ val <= m - (m \div 2)
        /\ (val - x) % m = 0

\* C5, its case: an odd modulus and a scalar whose centered representative is
\* the lower end -floor(m/2) itself.
CenteringBoundWitness ==
    /\ pc = "reduce_and_center_scalar"
    /\ m > 1
    /\ m % 2 = 1
    /\ val = 0 - (m \div 2)

\* C6: for a modulus m > 0, reduce_scalar(x, m) is the r with 0 <= r < m and
\* r congruent to x modulo m, for negative x too; reduce_coefficients returns
\* as many elements as it is given, the k-th being that representative of the
\* k-th.
ReduceScalarCanonical ==
    /\ pc = "reduce_scalar" =>
           /\ 0 <= val
           /\ val < m
           /\ (x - val) % m = 0
    /\ pc = "reduce_coefficients" =>
           /\ Len(result) = Len(p)
           /\ \A k \in 1 .. Len(p) :
                  /\ 0 <= result[k]
                  /\ result[k] < m
                  /\ (p[k] - result[k]) % m = 0

\* C6, its case: a negative scalar whose truncating remainder is negative.
ReduceScalarWitness ==
    /\ pc = "reduce_scalar"
    /\ x < 0
    /\ TruncRem(x, m) < 0
    /\ val > 0

\* C7: p.mul(q.add(r)) and p.mul(q).add(p.mul(r)) have the same coefficient
\* sequence once trim_leading_zeros is applied to both.
Distributivity ==
    pc = "distribute" => result = result2

\* C7, its case: q and r are not zero and cancel, so that the left side is
\* the product with a structurally zero sum and the right side a sum of two
\* products of more than one coefficient.
DistributivityWitness ==
    /\ pc = "distribute"
    /\ Len(p) = 2
    /\ p[1] # 0
    /\ ~is_zero(q)
    /\ ~is_zero(r)
    /\ is_zero(add(q, r))
    /\ Len(add(mul(p, q), mul(p, r))) > 1
    /\ result = <<0>>

\* C8: p.mul(q) is <<0>> when p or q is structurally zero (the empty
\* sequence included); otherwise it has len(p) + len(q) - 1 coefficients, the
\* one at the 0-based index k being the sum of p[i] * q[j] over i + j = k.
MulIsConvolution ==
    pc = "mul" =>
        IF is_zero(p) \/ is_zero(q) THEN result = <<0>>
        ELSE /\ Len(result) = Len(p) + Len(q) - 1
             /\ \A k \in 0 .. Len(result) - 1 :
                    result[k + 1] = ConvSum(p, q, k, 1)

\* C8, its case: two operands of two non-zero coefficients, so that the
\* middle coefficient of the product is a sum of two products.
MulIsConvolutionWitness ==
    /\ pc = "mul"
    /\ Len(p) = 2
    /\ Len(q) = 2
    /\ \A k \in 1 .. 2 : p[k] # 0 /\ q[k] # 0
    /\ Len(result) = 3

\* C9: p.add(q) has max(len(p), len(q)) coefficients, the one of each degree
\* being the sum of p's and q's coefficients of that degree (zero where the
\* shorter operand has none), leading zeros kept; and p.add(p.neg()) is
\* structurally zero with len(p) coefficients.
AddAlignsLowDegree ==
    pc = "add" =>
        /\ Len(result) = Max(Len(p), Len(q))
        /\ \A d \in 0 .. Max(Len(p), Len(q)) :
               CoefAt(result, d) = CoefAt(p, d) + CoefAt(q, d)
        /\ q = neg(p) => (is_zero(result) /\ Len(result) = Len(p))

\* C9, its case: operands of different lengths whose sum has a zero leading
\* coefficient that is kept.
AddAlignsLowDegreeWitness ==
    /\ pc = "add"
    /\ Len(p) = 1
    /\ Len(q) = 2
    /\ p[1] # 0
    /\ q[1] = 0
    /\ result[1] = 0
    /\ result[2] = p[1] + q[2]

\* C10: a non-zero polynomial and its negation never render to the same
\* string, and a structurally zero or empty polynomial renders as "0".
DisplaySignAware ==
    pc = "shown_neg" =>
        /\ ~is_zero(p) => text # text2
        /\ is_zero(p) => text = "0"

\* x to the power n, by repeated multiplication (x^0 = 1, for x = 0 too).
RECURSIVE Pow(_, _)
Pow(base, n) == IF n = 0 THEN 1 ELSE base * Pow(base, n - 1)

\* The sum of a[i] * x^(len(a) - i) over the 1-based indices from i on.
RECURSIVE PowerSum(_, _, _)
PowerSum(a, point, i) ==
    IF i > Len(a) THEN 0
    ELSE a[i] * Pow(point, Len(a) - i) + PowerSum(a, point, i + 1)

\* C11: for every integer sequence p, from_ascending_coefficients(p) stores
\* exactly the reverse of p and its to_ascending_coefficients() is p again;
\* and for every polynomial p, from_ascending_coefficients of
\* p.to_ascending_coefficients() is p again.
AscendingRoundTrip ==
    /\ pc = "from_ascending" =>
           /\ Len(result) = Len(p)
           /\ \A k \in 1 .. Len(p) : result[k] = p[Len(p) + 1 - k]
           /\ result2 = p
    /\ pc = "to_ascending" => result2 = p

\* C11, its case: a sequence of three elements that is not its own reverse,
\* converted and converted back.
AscendingRoundTripWitness ==
    /\ pc = "from_ascending"
    /\ Len(p) = 3
    /\ p[1] # p[3]
    /\ result # p
    /\ result2 = p

\* C12: p.evaluate(x) is the sum of p[i] * x^(len(p) - 1 - i) over the stored
\* coefficients, leading zeros included, for x = 0 and negative x too, and 0
\* for the empty sequence.
EvaluateIsPowerSum ==
    pc = "evaluate" =>
        /\ val = PowerSum(p, x, 1)
        /\ Len(p) = 0 => val = 0

\* C12, its case: three stored coefficients with a zero leading one,
\* evaluated at a negative point to a non-zero value.
EvaluateIsPowerSumWitness ==
    /\ pc = "evaluate"
    /\ Len(p) = 3
    /\ p[1] = 0
    /\ p[2] # 0
    /\ x < 0
    /\ val # 0

\* C13: p.trim_leading_zeros() is p without its maximal run of leading zero
\* coefficients, except that a non-empty p keeps at least one coefficient: a
\* non-empty all-zero p gives <<0>>, a p with a non-zero first coefficient is
\* returned as it is, what remains keeps its order and values, and trimming
\* the result again changes nothing.
TrimRemovesLeadingZeros ==
    pc = "trim" =>
        LET removed == Len(p) - Len(result)
        IN  /\ removed >= 0
            /\ result = SubSeq(p, removed + 1, Len(p))
            /\ \A k \in 1 .. removed : p[k] = 0
            /\ Len(result) > 1 => result[1] # 0
            /\ Len(p) >= 1 => Len(result) >= 1
            /\ (Len(p) >= 1 /\ is_zero(p)) => result = <<0>>
            /\ (Len(p) >= 1 /\ p[1] # 0) => result = p
            /\ result2 = result

\* C13, its case: three zero coefficients, trimmed to the single zero.
TrimRemovesLeadingZerosWitness ==
    /\ pc = "trim"
    /\ Len(p) = 3
    /\ is_zero(p)
    /\ result = <<0>>

\* Whether every quotient coefficient div computes from the i-th step on is
\* an exact quotient: coeff * divisor[0] is the remainder's coefficient it
\* was computed from.
RECURSIVE DivStepsExact(_, _, _, _)
DivStepsExact(quotient_len, rem, divisor, i) ==
    IF i > quotient_len \/ i > Len(rem) THEN TRUE
    ELSE LET coeff == TruncDiv(rem[i], divisor[1])
         IN  /\ coeff * divisor[1] = rem[i]
             /\ DivStepsExact(quotient_len, DivInner(rem, divisor, coeff, i, 1),
                              divisor, i + 1)

\* C14: for a divisor q with leading coefficient 1 and a dividend p with
\* degree(p) >= degree(q), div returns Ok with the Euclidean quotient and
\* remainder: every step's division is exact, q * quotient + remainder is p,
\* and the remainder has fewer coefficients than q; and reduce_by_cyclotomic
\* returns that remainder right-aligned, nothing of it cut off.
MonicDivisionIsEuclidean ==
    (Len(q) >= 1 /\ q[1] = 1 /\ degree(p) >= degree(q)) =>
        /\ pc = "div" =>
               /\ status = "Ok"
               /\ DivStepsExact(Len(quotient), p, q, 1)
               /\ LET back == add(mul(q, quotient), remainder)
                      common == Max(Len(back), Len(p))
                  IN  PadTo(back, common) = PadTo(p, common)
               /\ Len(remainder) <= Len(q) - 1
        /\ pc = "reduce_by_cyclotomic" =>
               /\ status = "Ok"
               /\ Len(result) = Len(q) - 1
               /\ \A d \in 0 .. Len(q) :
                      CoefAt(result, d) = CoefAt(div(p, q, FALSE).remainder, d)

\* C15: div returns Ok, DivisionByZero or InvalidPolynomial for every
\* dividend and divisor, and never aborts; when it returns Ok without the
\* short-circuit on degree(p) < degree(q), len(p) - len(q) + 1 is not
\* negative and is the number of coefficients of the quotient.
DivIsTotal ==
    pc = "div" =>
        /\ status \in {"Ok", "DivisionByZero", "InvalidPolynomial"}
        /\ (status = "Ok" /\ ~(degree(p) < degree(q))) =>
               /\ Len(p) - Len(q) + 1 >= 0
               /\ Len(quotient) = Len(p) - Len(q) + 1

\* C16: when the divisor q is empty, all zero or has a zero leading
\* coefficient, reduce_by_cyclotomic returns the error div returns in the same
\* build, DivisionByZero or InvalidPolynomial and not a panic of len - 1; and
\* when div returns Ok, reduce_by_cyclotomic returns Ok.
ReducePropagatesDivErrors ==
    pc = "reduce_by_cyclotomic" =>
        LET d == div(p, q, build = "debug")
        IN  /\ (Len(q) = 0 \/ is_zero(q) \/ q[1] = 0) =>
                   /\ status \in {"DivisionByZero", "InvalidPolynomial"}
                   /\ status = d.status
            /\ d.status = "Ok" => status = "Ok"

\* C16, its case: an empty divisor in a build with overflow checks, where
\* len - 1 would panic if it were computed.
ReducePropagatesDivErrorsWitness ==
    /\ pc = "reduce_by_cyclotomic"
    /\ Len(q) = 0
    /\ Len(p) > 0
    /\ build = "debug"
    /\ status = "DivisionByZero"

====
